---- MODULE Spec2Model ----
(***************************************************************************)
(* State-dict conversion hooks of torch/distributed/fsdp/                  *)
(* _state_dict_utils.py: the full, local and sharded (partitioned) save    *)
(* and load hooks of one FSDP instance, run by world_size ranks.           *)
(*                                                                         *)
(* A tensor is a sequence of element values; a shape is a pair <<d0, d1>>. *)
(* A state_dict is a function from keys to values; a key is a sequence of  *)
(* name segments (a dotted name), so that a prefix is a sequence too.      *)
(* Every state_dict value is a record [kind, size, shards, data, cloned,   *)
(* storage].                                                               *)
(***************************************************************************)
EXTENDS Integers, Sequences, FiniteSets, TLC

\* ------------------------------------------------------------------ bounds
MaxWorld == 3
MaxParams == 2
MaxDim0 == 3
MaxDim1 == 2
MaxLocalWorld == 8
MaxNumel == 10
MaxCalls == 3

MaxShards == 2

VARIABLES
    world_size,          \* module.world_size
    prefix,              \* the prefix argument of the hooks
    module,              \* flags of the FSDP instance (per scenario)
    param_fqns,          \* module._param_fqns, in declaration order
    shared_fqns,         \* the names of module._shared_param_fqns
    orig,                \* the logical tensors the checkpoint was saved from
    flat_param,          \* per rank: module._handles[0].flat_param
    pc,                  \* per rank: position of the running hook
    state_dict,          \* per rank: the state_dict argument of the hook
    loaded_shapes,       \* per rank: local of _sharded_pre_load_state_dict_hook
    nonsharded_tensors,  \* per rank: local of _sharded_pre_load_state_dict_hook
    error,               \* per rank: the exception the hook raised, or "none"
    issued,              \* per rank: the all-gather calls issued so far
    fsdp,                \* per rank: module._full_param_ctx, training_state, ...
    incoming             \* per rank: the state_dict value a load hook was given

vars == <<world_size, prefix, module, param_fqns, shared_fqns, orig,
          flat_param, pc, state_dict, loaded_shapes, nonsharded_tensors,
          error, issued, fsdp, incoming>>

scenario == <<world_size, prefix, module, param_fqns, shared_fqns, orig,
              flat_param>>

sharded_locals == <<loaded_shapes, nonsharded_tensors, issued>>

Ranks == DOMAIN pc

\* ------------------------------------------------------- names and keys
FSDP_PREFIX == <<"_fsdp_wrapped_module">>
FLAT_PARAM == <<"_flat_param">>

Fqn(i) == <<"w" \o ToString(i)>>

\* ------------------------------------------------------ tensor helpers
Min(a, b) == IF a < b THEN a ELSE b
Max(a, b) == IF a > b THEN a ELSE b

\* math.ceil(a / b) for a >= 0, b >= 1
CeilDiv(a, b) == (a + b - 1) \div b

\* torch.Size.numel()
Numel(shape) == shape[1] * shape[2]

Zeros(k) == [i \in 1..k |-> 0]

\* F.pad(t, [0, k]) for k >= 0
Pad(t, k) == t \o Zeros(k)

\* Tensor.narrow(0, start, length)
Narrow(t, start, length) == SubSeq(t, start + 1, start + length)

\* cloned is the _has_been_cloned attribute; storage tells whose memory the
\* value points to: "fresh" (its own), "scope" (the unsharded flat parameter
\* that lives only inside summon_full_params), "module" (a buffer or an
\* ignored parameter of the wrapped module), "clone" (made by the running
\* hook).
Tensor(shape, data) ==
    [kind |-> "Tensor", size |-> shape, shards |-> <<>>, data |-> data,
     cloned |-> FALSE, storage |-> "fresh"]

ShardedTensor(shape, shards) ==
    [kind |-> "ShardedTensor", size |-> shape, shards |-> shards,
     data |-> <<>>, cloned |-> FALSE, storage |-> "fresh"]

\* dict without key k
Pop(sd, k) == [x \in (DOMAIN sd) \ {k} |-> sd[x]]

\* dict with sd[k] = v
Put(sd, k, v) == [x \in (DOMAIN sd) \cup {k} |-> IF x = k THEN v ELSE sd[x]]

\* The element values of the i-th logical parameter: element j holds a value
\* that names (i, j), so that any reordering or loss shows.
OrigData(i, shape) == [j \in 1..Numel(shape) |-> 16 * i + j]

\* ------------------------------------------------- external collaborators
\* FlatParamHandle._get_shard: chunk of the flattened tensor for rank, right
\* padded with zeros to the uniform chunk size (ChunkLayout).
GetShard(flat, rank, world) ==
    LET chunk_size == CeilDiv(Len(flat), world)
        offset == chunk_size * rank
        valid_size == Max(0, Min(chunk_size, Len(flat) - offset))
        padding == chunk_size - valid_size
    IN  [tensor |-> Pad(Narrow(flat, offset, valid_size), padding),
         num_to_pad |-> padding]

\* FlatParamHandle.flatten_params: concatenation of the flattened tensors.
RECURSIVE FlattenParams(_)
FlattenParams(tensors) ==
    IF tensors = <<>> THEN <<>>
    ELSE Head(tensors).data \o FlattenParams(Tail(tensors))

\* _ext_chunk_tensor: the rank's piece of the tensor chunked along dim 0
\* into world pieces; a rank past the last piece holds no shard.
ChunkTensor(data, shape, rank, world) ==
    LET rows == CeilDiv(shape[1], world)
        lo == rank * rows
        hi == Min(shape[1], lo + rows)
    IN  ShardedTensor(shape,
            IF lo < hi
            THEN << [tensor |-> SubSeq(data, lo * shape[2] + 1, hi * shape[2]),
                     offset |-> lo, rank |-> rank] >>
            ELSE <<>>)

\* _ext_pre_load_state_dict_transform: (tensor, its local shards)
PreLoadTransform(param) == <<param, param.shards>>

\* dist.all_gather_into_tensor: the k-th contributions of ranks q.. in rank
\* order, rank q's at output offset q * chunk_size.
RECURSIVE AllGather(_, _)
AllGather(q, k) ==
    IF q >= world_size THEN <<>>
    ELSE issued[q][k].buf \o AllGather(q + 1, k)

\* _replace_by_prefix(state_dict, old, new): every key that starts with old
\* gets old replaced by new.
StartsWith(key, p) == Len(key) >= Len(p) /\ SubSeq(key, 1, Len(p)) = p

Rename(key, old, new) ==
    IF StartsWith(key, old) THEN new \o SubSeq(key, Len(old) + 1, Len(key))
    ELSE key

ReplaceByPrefix(sd, old, new) ==
    LET keys == {Rename(k, old, new) : k \in DOMAIN sd}
    IN  [x \in keys |-> sd[CHOOSE k \in DOMAIN sd : Rename(k, old, new) = x]]

\* all_gather_into_tensor rejects, on the calling rank, an output tensor
\* whose size is not world times the size of the input tensor.
AllGatherAccepts(output_numel, input_numel, world) ==
    output_numel = input_numel * world

\* ---------------------------------------------------- the key transforms
\* lines 287, 367 and 465: _replace_by_prefix(state_dict, prefix,
\* prefix + FSDP_PREFIX), the same call in the three load hooks
RestoreKeys_WrapperFirst(sd, pfx) == ReplaceByPrefix(sd, pfx, FSDP_PREFIX \o pfx)

RestoreKeys(sd, pfx) == ReplaceByPrefix(sd, pfx, pfx \o FSDP_PREFIX)

\* lines 129 and 325: _replace_by_prefix(state_dict, prefix + FSDP_PREFIX,
\* prefix), the same call in the save hooks
SaveKeys(sd, pfx) == ReplaceByPrefix(sd, pfx \o FSDP_PREFIX, pfx)

\* --------------------------------------- _sharded_pre_load_state_dict_hook
\* line 478: rank r's i-th name of ``for fqn, _, _ in module._param_fqns``
ParamAt_RankOrder(r, i) ==
    IF r % 2 = 1 THEN param_fqns[Len(param_fqns) + 1 - i] ELSE param_fqns[i]

ParamAt(r, i) == param_fqns[i]

\* line 481: shared aliases are skipped
SkipsGather_Never(fqn) == FALSE

SkipsGather(fqn) == fqn \in shared_fqns

\* lines 486-489: assert len(shards) < 2
ShardCountOk_AtMostTwo(shards) == Len(shards) < 3

ShardCountOk_Unchecked(shards) == TRUE

ShardCountOk(shards) == Len(shards) < 2

\* lines 490-494
ChunkSize(shape, world) ==
    (CeilDiv(shape[1], world) * Numel(shape)) \div shape[1]

\* lines 495-503
LocalTensor_PadLeft(shards, chunk_size) ==
    IF Len(shards) = 1
    THEN LET local_tensor == shards[1].tensor
             num_padding == chunk_size - Len(local_tensor)
         IN  IF num_padding > 0 THEN Zeros(num_padding) \o local_tensor
             ELSE local_tensor
    ELSE Zeros(chunk_size)

LocalTensor_Truncates(shards, chunk_size) ==
    IF Len(shards) = 1
    THEN LET local_tensor == shards[1].tensor
             num_padding == chunk_size - Len(local_tensor)
         IN  IF num_padding > 0 THEN Pad(local_tensor, num_padding)
             ELSE Narrow(local_tensor, 0, chunk_size)
    ELSE Zeros(chunk_size)

LocalTensor(shards, chunk_size) ==
    IF Len(shards) = 1
    THEN LET local_tensor == shards[1].tensor
             num_padding == chunk_size - Len(local_tensor)
         IN  IF num_padding > 0 THEN Pad(local_tensor, num_padding)
             ELSE local_tensor
    ELSE Zeros(chunk_size)

\* line 508
TrimGathered(tensor, shape) == Tensor(shape, Narrow(tensor, 0, Numel(shape)))

\* line 524: all(s1 == s2 for s1, s2 in zip(loaded_shapes, flat_param._shapes))
ShapesMatch(loaded, recorded) ==
    \A i \in 1..Min(Len(loaded), Len(recorded)) : loaded[i] = recorded[i]

\* line 529
NumelMatches_Always(fp, loaded_flat_tensor) == TRUE

NumelMatches(fp, loaded_flat_tensor) == fp.numel = Len(loaded_flat_tensor)

\* line 533
PaddingMatches(fp, num_to_pad) == fp.shard_numel_padded = num_to_pad

Fail(st, e) == [st EXCEPT !.pc = "failed", !.err = e]

\* lines 511-539
FinishLoad_InstallsUnderPrefix(r, st) ==
    LET loaded_flat_param == FlattenParams(st.tensors)
        shard == GetShard(loaded_flat_param, r, world_size)
        fp == flat_param[r]
    IN  IF ~ShapesMatch(st.shapes, fp.shapes) THEN Fail(st, "ShapeMismatch")
        ELSE IF ~NumelMatches(fp, shard.tensor) THEN Fail(st, "SizeMismatch")
        ELSE IF ~PaddingMatches(fp, shard.num_to_pad)
             THEN Fail(st, "PaddingMismatch")
        ELSE [st EXCEPT
                !.pc = "done",
                !.sd = Put(st.sd, prefix \o FLAT_PARAM,
                           Tensor(<<Len(shard.tensor), 1>>, shard.tensor))]

FinishLoad(r, st) ==
    LET loaded_flat_param == FlattenParams(st.tensors)
        shard == GetShard(loaded_flat_param, r, world_size)
        fp == flat_param[r]
    IN  IF ~ShapesMatch(st.shapes, fp.shapes) THEN Fail(st, "ShapeMismatch")
        ELSE IF ~NumelMatches(fp, shard.tensor) THEN Fail(st, "SizeMismatch")
        ELSE IF ~PaddingMatches(fp, shard.num_to_pad)
             THEN Fail(st, "PaddingMismatch")
        ELSE [st EXCEPT
                !.pc = "done",
                !.sd = Put(st.sd, prefix \o FSDP_PREFIX \o FLAT_PARAM,
                           Tensor(<<Len(shard.tensor), 1>>, shard.tensor))]

\* lines 478-507: the loop from parameter st.i up to the next all-gather, or
\* through the validation when no parameter is left.
RECURSIVE LoadLoop(_, _)
LoadLoop(r, st) ==
    IF st.i > Len(param_fqns) THEN FinishLoad(r, st)
    ELSE
    LET fqn == ParamAt(r, st.i)
        full_fqn == prefix \o FSDP_PREFIX \o fqn
    IN  IF full_fqn \notin DOMAIN st.sd THEN Fail(st, "KeyError")
        ELSE
        LET param == st.sd[full_fqn]
            popped == [st EXCEPT !.sd = Pop(st.sd, full_fqn)]
        IN  IF SkipsGather(fqn) THEN LoadLoop(r, [popped EXCEPT !.i = @ + 1])
            ELSE
            LET shards == PreLoadTransform(param)[2]
                st1 == [popped EXCEPT !.shapes = Append(@, param.size)]
            IN  IF ~ShardCountOk(shards) THEN Fail(st1, "MultiShard")
                ELSE IF param.size[1] = 0 THEN Fail(st1, "ZeroDivisionError")
                ELSE
                LET chunk_size == ChunkSize(param.size, world_size)
                    local_tensor == LocalTensor(shards, chunk_size)
                IN  IF ~AllGatherAccepts(chunk_size * world_size,
                                         Len(local_tensor), world_size)
                    THEN Fail(st1, "AllGatherSizeError")
                    ELSE [st1 EXCEPT !.pc = "all_gather",
                                     !.buf = local_tensor]

LocalState(r, i) ==
    [i |-> i, sd |-> state_dict[r], shapes |-> loaded_shapes[r],
     tensors |-> nonsharded_tensors[r], pc |-> pc[r], err |-> error[r],
     buf |-> <<>>]

Commit(r, st) ==
    /\ pc' = [pc EXCEPT ![r] = st.pc]
    /\ state_dict' = [state_dict EXCEPT ![r] = st.sd]
    /\ loaded_shapes' = [loaded_shapes EXCEPT ![r] = st.shapes]
    /\ nonsharded_tensors' = [nonsharded_tensors EXCEPT ![r] = st.tensors]
    /\ error' = [error EXCEPT ![r] = st.err]
    /\ issued' = [issued EXCEPT ![r] =
                    IF st.pc = "all_gather"
                    THEN Append(@, [i |-> st.i, fqn |-> ParamAt(r, st.i),
                                    buf |-> st.buf])
                    ELSE @]
    /\ UNCHANGED <<scenario, fsdp, incoming>>

\* lines 465-507: the hook from its entry to its first all-gather
ShardedPreLoad(r) ==
    /\ pc[r] = "sharded_pre_load"
    /\ LET renamed == RestoreKeys(state_dict[r], prefix)
           st == [LocalState(r, 1) EXCEPT !.sd = renamed]
       IN  IF ~module.has_params THEN Commit(r, [st EXCEPT !.pc = "done"])
           ELSE IF ~module.uses_sharded_strategy
                THEN Commit(r, Fail(st, "RuntimeError"))
           ELSE Commit(r, LoadLoop(r, st))

\* lines 507-509 and on: the all-gather returns once every rank has issued
\* the matching call; the hook runs on to its next all-gather or to its end.
AllGatherReturn(r) ==
    /\ pc[r] = "all_gather"
    /\ \A q \in Ranks : Len(issued[q]) >= Len(issued[r])
    /\ LET k == Len(issued[r])
           shape == loaded_shapes[r][Len(loaded_shapes[r])]
           tensor == TrimGathered(AllGather(0, k), shape)
           st == [LocalState(r, issued[r][k].i + 1) EXCEPT
                    !.tensors = Append(@, tensor)]
       IN  Commit(r, LoadLoop(r, st))


\* lines 304 and 408: the save hooks of the local and sharded types refuse
\* an instance whose parameters are not flattened and sharded
RejectsLayout_Never(m) == FALSE

RejectsLayout(m) == m.has_params /\ ~m.uses_sharded_strategy

\* ------------------------------------------- _local_post_state_dict_hook
\* line 337
ShardOffset(fp, rank) == fp.numel * rank

\* line 338
ValidDataSize_Unpadded(fp) == fp.numel

ValidDataSize(fp) == fp.numel - fp.shard_numel_padded

\* lines 339-340
LocalShardData_AlwaysNarrow(fp) == Narrow(fp.data, 0, ValidDataSize(fp))

LocalShardData(fp) ==
    IF ValidDataSize(fp) > 0 /\ fp.shard_numel_padded > 0
    THEN Narrow(fp.data, 0, ValidDataSize(fp))
    ELSE fp.data

\* lines 336-346: Shard.from_tensor_and_offsets and init_from_local_shards
LocalShardedTensor(fp, rank) ==
    ShardedTensor(<<fp.unpadded_unsharded_numel, 1>>,
        << [tensor |-> LocalShardData(fp), offset |-> ShardOffset(fp, rank),
            rank |-> rank] >>)

\* ------------------------------------- the phases of _post_state_dict_hook
\* fsdp[r].phases records the steps of the running save in the order the
\* code takes them; fsdp[r].buffer_dtype is the type the buffers are in, the
\* instance's own and those of the instances nested in it.
Log(f, step) == [f EXCEPT !.phases = Append(@, step)]

\* lines 75-88: torch.cuda.synchronize(), _lazy_init(),
\* _clear_grads_if_needed()
CommonPreStateDictHook(f) == Log(f, "common_pre")

\* lines 113-114: _cast_buffers(dtype=_buffer_name_to_orig_dtype,
\* recurse=False)
CastBuffersToOrig(f, m) ==
    IF m.mixed_precision_buffers
    THEN Log([f EXCEPT !.buffer_dtype.own = "orig"], "cast_buffers_orig")
    ELSE f

\* lines 554-562: the function the dispatcher selects, as the position its
\* first step is taken from; the full and the sharded save share the steps
\* of _common_summon_pre/post_state_dict_hook
PostStateDictHookFn(type) ==
    CASE type = "FULL_STATE_DICT" -> "state_dict"
      [] type = "LOCAL_STATE_DICT" -> "local_state_dict"
      [] type = "SHARDED_STATE_DICT" -> "state_dict"

PostHookName(type) ==
    CASE type = "FULL_STATE_DICT" -> "_full_post_state_dict_hook"
      [] type = "SHARDED_STATE_DICT" -> "_sharded_post_state_dict_hook"
      [] OTHER -> "_local_post_state_dict_hook"

\* lines 567-568: _cast_buffers(recurse=True) on the root instance
RestoreBufferPrecision_NoRecurse(f, m) ==
    IF m.is_root /\ m.mixed_precision_buffers
    THEN Log([f EXCEPT !.buffer_dtype.own = "mixed"], "cast_buffers_mixed")
    ELSE f

RestoreBufferPrecision(f, m) ==
    IF m.is_root /\ m.mixed_precision_buffers
    THEN Log([f EXCEPT !.buffer_dtype = [b \in DOMAIN @ |-> "mixed"]],
             "cast_buffers_mixed")
    ELSE f

\* lines 294-350 (the hook calls _local_pre_state_dict_hook first)
LocalPostStateDict(r) ==
    /\ pc[r] = "local_state_dict"
    /\ IF RejectsLayout(module)
       THEN /\ pc' = [pc EXCEPT ![r] = "failed"]
            /\ error' = [error EXCEPT ![r] = "RuntimeError"]
            /\ UNCHANGED <<state_dict, incoming, fsdp>>
       ELSE LET renamed == SaveKeys(state_dict[r], prefix)
                saved == IF ~module.has_params THEN renamed
                         ELSE Put(renamed, prefix \o FLAT_PARAM,
                                  LocalShardedTensor(flat_param[r], r))
            IN  /\ state_dict' = [state_dict EXCEPT ![r] = saved]
                /\ pc' = [pc EXCEPT ![r] = "local_load_state_dict"]
                \* the saved state_dict is what a following load is given
                /\ incoming' = [incoming EXCEPT ![r] =
                                  [source |-> "saved", value |-> saved]]
                /\ fsdp' = [fsdp EXCEPT ![r] =
                              RestoreBufferPrecision(
                                  Log(CommonPreStateDictHook(@),
                                      "_local_post_state_dict_hook"),
                                  module)]
                /\ UNCHANGED error
    /\ UNCHANGED <<scenario, sharded_locals>>

\* A checkpoint from elsewhere is handed to the load hook: a ShardedTensor
\* with one local shard of m elements.
ReceiveLocalCheckpoint(r) ==
    /\ pc[r] = "local_state_dict"
    /\ \E m \in 0..(MaxNumel + 1) :
        LET sd == [key \in {prefix \o FLAT_PARAM} |->
                     ShardedTensor(<<flat_param[r].unpadded_unsharded_numel, 1>>,
                        << [tensor |-> [j \in 1..m |-> 900 + j],
                            offset |-> ShardOffset(flat_param[r], r),
                            rank |-> r] >>)]
        IN  /\ state_dict' = [state_dict EXCEPT ![r] = sd]
            /\ incoming' = [incoming EXCEPT ![r] =
                              [source |-> "received", value |-> sd]]
    /\ pc' = [pc EXCEPT ![r] = "local_load_state_dict"]
    /\ UNCHANGED <<scenario, sharded_locals, fsdp, error>>

\* The same with any number of local shards up to MaxShards, each of m
\* elements, the j-th with values of its own.
ReceiveShardsCheckpoint(r) ==
    /\ pc[r] = "local_state_dict"
    /\ \E m \in 0..(MaxNumel + 1), ns \in 0..MaxShards :
        LET sd == [key \in {prefix \o FLAT_PARAM} |->
                     ShardedTensor(<<flat_param[r].unpadded_unsharded_numel, 1>>,
                        [j \in 1..ns |->
                           [tensor |-> [i \in 1..m |-> 900 + 30 * (j - 1) + i],
                            offset |-> ShardOffset(flat_param[r], r),
                            rank |-> r]])]
        IN  /\ state_dict' = [state_dict EXCEPT ![r] = sd]
            /\ incoming' = [incoming EXCEPT ![r] =
                              [source |-> "received", value |-> sd]]
    /\ pc' = [pc EXCEPT ![r] = "local_load_state_dict"]
    /\ UNCHANGED <<scenario, sharded_locals, fsdp, error>>

\* ---------------------------------------- _local_pre_load_state_dict_hook
\* line 389
LoadPadsTensor_NonZeroPadding(fp) == fp.shard_numel_padded # 0

LoadPadsTensor(fp) == fp.shard_numel_padded \notin {0, fp.numel}

\* lines 357-395
LocalPreLoad(r) ==
    /\ pc[r] = "local_load_state_dict"
    /\ LET renamed == RestoreKeys(state_dict[r], prefix)
           fqn == prefix \o FSDP_PREFIX \o FLAT_PARAM
           fp == flat_param[r]
           Raise(e) == /\ pc' = [pc EXCEPT ![r] = "failed"]
                       /\ error' = [error EXCEPT ![r] = e]
                       /\ state_dict' = [state_dict EXCEPT ![r] = renamed]
           Return(sd) == /\ pc' = [pc EXCEPT ![r] = "done"]
                         /\ state_dict' = [state_dict EXCEPT ![r] = sd]
                         /\ UNCHANGED error
       IN  IF fqn \notin DOMAIN renamed
           THEN IF module.has_params THEN Raise("MissingFlatParam")
                ELSE Return(renamed)
           ELSE IF renamed[fqn].kind # "ShardedTensor"
                THEN Raise("NotShardedTensor")
           ELSE IF Len(renamed[fqn].shards) = 0 THEN Raise("NoShard")
           ELSE LET load_tensor == renamed[fqn].shards[1].tensor
                IN  IF LoadPadsTensor(fp)
                    THEN IF ~(Len(load_tensor) < fp.numel)
                         THEN Raise("ShapeMismatch")
                         ELSE Return(Put(renamed, fqn,
                                Tensor(<<Len(load_tensor)
                                           + fp.shard_numel_padded, 1>>,
                                       Pad(load_tensor,
                                           fp.shard_numel_padded))))
                    ELSE Return(Put(renamed, fqn,
                                    Tensor(<<Len(load_tensor), 1>>,
                                           load_tensor)))
    /\ UNCHANGED <<scenario, sharded_locals, fsdp, incoming>>


\* ------------------------------ _enter_full_param_ctx, _exit_full_param_ctx
\* lines 36-64: the assertions hold, the context is entered
CanEnterFullParamCtx(f) ==
    f.full_param_ctx = "None" /\ f.training_state # "SUMMON_FULL_PARAMS"

\* fsdp[r].enters and fsdp[r].exits count the __enter__ and __exit__ calls
EnterFullParamCtx(f) ==
    [f EXCEPT !.full_param_ctx = "entered",
              !.training_state = "SUMMON_FULL_PARAMS",
              !.enters = @ + 1]

\* lines 67-72
CanExitFullParamCtx(f) ==
    f.training_state = "SUMMON_FULL_PARAMS" /\ f.full_param_ctx # "None"

ExitFullParamCtx_KeepsState(f) ==
    [f EXCEPT !.full_param_ctx = "None", !.exits = @ + 1]

ExitFullParamCtx(f) ==
    [f EXCEPT !.full_param_ctx = "None", !.training_state = "IDLE",
              !.exits = @ + 1]

\* ---------- _full_pre_load_state_dict_hook, _full_post_load_state_dict_hook
\* lines 281-287
FullPreLoad(r) ==
    /\ pc[r] = "full_pre_load"
    /\ IF ~CanEnterFullParamCtx(fsdp[r])
       THEN /\ pc' = [pc EXCEPT ![r] = "failed"]
            /\ error' = [error EXCEPT ![r] = "AssertionError"]
            /\ UNCHANGED <<fsdp, state_dict>>
       ELSE /\ fsdp' = [fsdp EXCEPT ![r] = EnterFullParamCtx(@)]
            /\ state_dict' = [state_dict EXCEPT ![r] = RestoreKeys(@, prefix)]
            /\ pc' = [pc EXCEPT ![r] = "full_post_load"]
            /\ UNCHANGED error
    /\ UNCHANGED <<scenario, sharded_locals, incoming>>

\* lines 290-291
FullPostLoad(r) ==
    /\ pc[r] = "full_post_load"
    /\ IF ~CanExitFullParamCtx(fsdp[r])
       THEN /\ pc' = [pc EXCEPT ![r] = "failed"]
            /\ error' = [error EXCEPT ![r] = "AssertionError"]
            /\ UNCHANGED fsdp
       ELSE /\ fsdp' = [fsdp EXCEPT ![r] = ExitFullParamCtx(@)]
            /\ pc' = [pc EXCEPT ![r] = "done"]
            /\ UNCHANGED error
    /\ UNCHANGED <<scenario, sharded_locals, state_dict, incoming>>

\* ------------------ _full_pre_state_dict_hook, _sharded_pre_state_dict_hook
\* lines 208-230 and 398-419, with lines 75-114
SummonPreStateDict(r) ==
    /\ pc[r] = "state_dict"
    /\ module.state_dict_type \in {"FULL_STATE_DICT", "SHARDED_STATE_DICT"}
    /\ IF /\ module.state_dict_type = "SHARDED_STATE_DICT"
          /\ RejectsLayout(module)
       THEN /\ pc' = [pc EXCEPT ![r] = "failed"]
            /\ error' = [error EXCEPT ![r] = "RuntimeError"]
            /\ UNCHANGED fsdp
       ELSE IF ~CanEnterFullParamCtx(fsdp[r])
       THEN /\ pc' = [pc EXCEPT ![r] = "failed"]
            /\ error' = [error EXCEPT ![r] = "AssertionError"]
            /\ fsdp' = [fsdp EXCEPT ![r] = CommonPreStateDictHook(@)]
       ELSE /\ pc' = [pc EXCEPT ![r] = "summon_post"]
            /\ fsdp' = [fsdp EXCEPT ![r] =
                          CastBuffersToOrig(
                              Log(EnterFullParamCtx(CommonPreStateDictHook(@)),
                                  "enter_full_param_ctx"),
                              module)]
            /\ UNCHANGED error
    /\ UNCHANGED <<scenario, sharded_locals, state_dict, incoming>>

\* ------------------------------------------ the inner hooks of the save
\* clean_tensor_name(prefix): the wrapper's name segments removed
RECURSIVE CleanTensorName(_)
CleanTensorName(key) ==
    IF key = <<>> THEN <<>>
    ELSE (IF <<Head(key)>> = FSDP_PREFIX THEN <<>> ELSE <<Head(key)>>)
         \o CleanTensorName(Tail(key))

\* lines 253-259
CleanKey(fqn, pfx) ==
    IF StartsWith(fqn, CleanTensorName(pfx))
    THEN SubSeq(fqn, Len(CleanTensorName(pfx)) + 1, Len(fqn))
    ELSE fqn

\* lines 263-265
NeedsClone_IgnoresMarker(clean_key, value) ==
    clean_key \notin module.ignored_param_names

NeedsClone(clean_key, value) ==
    clean_key \notin module.ignored_param_names /\ ~value.cloned

\* line 267-268: state_dict[fqn].clone().detach(), marked
Clone(value) == [value EXCEPT !.cloned = TRUE, !.storage = "clone"]

FullInnerHook_FailureDropsEntry(st, fqn, clone_fails) ==
    IF NeedsClone(CleanKey(fqn, prefix), st.sd[fqn])
    THEN IF clone_fails
         THEN [st EXCEPT !.warnings = @ \cup {fqn}, !.sd = Pop(@, fqn)]
         ELSE [st EXCEPT !.sd = Put(@, fqn, Clone(st.sd[fqn]))]
    ELSE st

\* lines 247-276: st is [sd, warnings]; clone_fails tells whether clone()
\* raises for this entry
FullInnerHook(st, fqn, clone_fails) ==
    IF NeedsClone(CleanKey(fqn, prefix), st.sd[fqn])
    THEN IF clone_fails
         THEN [st EXCEPT !.warnings = @ \cup {fqn}]
         ELSE [st EXCEPT !.sd = Put(@, fqn, Clone(st.sd[fqn]))]
    ELSE st

\* lines 435-446
ShardedInnerHook(st, fqn, r) ==
    [st EXCEPT !.sd = Put(@, fqn,
        ChunkTensor(st.sd[fqn].data, st.sd[fqn].size, r, world_size))]

\* The parameter of the wrapped module named by the i-th fqn (line 167): a
\* view of the unsharded flat parameter, or an ignored parameter.
ModuleParam(i) == orig[i]

\* lines 165-180
RECURSIVE ParamLoop(_, _, _, _, _)
ParamLoop(r, st, i, no_fsdp_return, failing) ==
    IF i > Len(param_fqns) THEN st
    ELSE
    LET fqn == prefix \o param_fqns[i]
    IN  IF no_fsdp_return
        THEN ParamLoop(r, [st EXCEPT !.sd = Pop(@, fqn)], i + 1,
                       no_fsdp_return, failing)
        ELSE
        LET st1 == [st EXCEPT !.sd = Put(@, fqn, ModuleParam(i))]
            st2 == IF module.state_dict_type = "FULL_STATE_DICT"
                   THEN FullInnerHook(st1, fqn, i \in failing)
                   ELSE ShardedInnerHook(st1, fqn, r)
        IN  ParamLoop(r, st2, i + 1, no_fsdp_return, failing)

\* lines 154-159 and 189-197: the entries of the instance's buffers removed
PopBuffers(sd) ==
    [x \in (DOMAIN sd) \ {prefix \o b : b \in module.buffer_names} |-> sd[x]]

\* lines 189-203: the entries of the instance's buffers set to the buffers
\* of the wrapped module
Buffer(b) == [Tensor(<<1, 1>>, <<7>>) EXCEPT !.storage = "module"]

SetBuffers(sd) ==
    [x \in DOMAIN sd |->
        IF \E b \in module.buffer_names : x = prefix \o b
        THEN Buffer(CHOOSE b \in module.buffer_names : x = prefix \o b)
        ELSE sd[x]]

\* lines 146-152
NoFsdpReturn(r) ==
    /\ module.state_dict_type = "FULL_STATE_DICT"
    /\ module.rank0_only
    /\ r # 0

\* lines 118-180: _common_summon_post_state_dict_hook up to the exit of the
\* context on line 181, or through one of its early returns
SummonPostStateDict(r) ==
    /\ pc[r] = "summon_post"
    /\ LET renamed == SaveKeys(state_dict[r], prefix)
           Return(sd) ==
               /\ state_dict' = [state_dict EXCEPT ![r] = sd]
               /\ IF CanExitFullParamCtx(fsdp[r])
                  THEN /\ fsdp' = [fsdp EXCEPT ![r] =
                                     RestoreBufferPrecision(
                                         ExitFullParamCtx(
                                             Log(@, PostHookName(
                                                 module.state_dict_type))),
                                         module)]
                       /\ pc' = [pc EXCEPT ![r] = "done"]
                       /\ UNCHANGED error
                  ELSE /\ pc' = [pc EXCEPT ![r] = "failed"]
                       /\ error' = [error EXCEPT ![r] = "AssertionError"]
                       /\ UNCHANGED fsdp
       IN  IF fsdp[r].training_state # "SUMMON_FULL_PARAMS"
           THEN /\ pc' = [pc EXCEPT ![r] = "failed"]
                /\ error' = [error EXCEPT ![r] = "AssertionError"]
                /\ state_dict' = [state_dict EXCEPT ![r] = renamed]
                /\ UNCHANGED fsdp
           ELSE IF DOMAIN renamed = {} \/ ~module.has_params
           THEN Return(renamed)
           ELSE
           LET flat_popped == IF ~module.use_orig_params
                              THEN Pop(renamed, prefix \o FLAT_PARAM)
                              ELSE renamed
           IN  IF ~module.use_orig_params
                  /\ prefix \o FLAT_PARAM \notin DOMAIN renamed
               THEN /\ pc' = [pc EXCEPT ![r] = "failed"]
                    /\ error' = [error EXCEPT ![r] = "KeyError"]
                    /\ state_dict' = [state_dict EXCEPT ![r] = renamed]
                    /\ UNCHANGED fsdp
               ELSE IF NoFsdpReturn(r) /\ ~module.use_orig_params
               THEN Return(PopBuffers(flat_popped))
               ELSE IF /\ NoFsdpReturn(r)
                       /\ \E i \in 1..Len(param_fqns) :
                            prefix \o param_fqns[i] \notin DOMAIN flat_popped
               THEN /\ pc' = [pc EXCEPT ![r] = "failed"]
                    /\ error' = [error EXCEPT ![r] = "KeyError"]
                    /\ state_dict' = [state_dict EXCEPT ![r] = flat_popped]
                    /\ UNCHANGED fsdp
               ELSE \E failing \in SUBSET (1..Len(param_fqns)) :
                    LET st == ParamLoop(r,
                                  [sd |-> flat_popped,
                                   warnings |-> fsdp[r].warnings],
                                  1, NoFsdpReturn(r), failing)
                    IN  /\ state_dict' = [state_dict EXCEPT ![r] = st.sd]
                        /\ fsdp' = [fsdp EXCEPT ![r] =
                                      [Log(@, PostHookName(
                                            module.state_dict_type))
                                         EXCEPT !.warnings = st.warnings]]
                        /\ pc' = [pc EXCEPT ![r] = "summon_exit"]
                        /\ UNCHANGED error
    /\ UNCHANGED <<scenario, sharded_locals, incoming>>

\* lines 181-205: the context is exited, then the buffers are replaced
SummonExitStateDict(r) ==
    /\ pc[r] = "summon_exit"
    /\ IF ~CanExitFullParamCtx(fsdp[r])
       THEN /\ pc' = [pc EXCEPT ![r] = "failed"]
            /\ error' = [error EXCEPT ![r] = "AssertionError"]
            /\ UNCHANGED <<fsdp, state_dict>>
       ELSE /\ fsdp' = [fsdp EXCEPT ![r] =
                          RestoreBufferPrecision(ExitFullParamCtx(@), module)]
            /\ state_dict' = [state_dict EXCEPT ![r] =
                                IF NoFsdpReturn(r) THEN PopBuffers(@)
                                ELSE SetBuffers(@)]
            /\ pc' = [pc EXCEPT ![r] = "done"]
            /\ UNCHANGED error
    /\ UNCHANGED <<scenario, sharded_locals, incoming>>

\* ------------------------------------------------------------- scenarios
ShapeSet == {<<d0, d1>> : d0 \in 0..MaxDim0, d1 \in 1..MaxDim1}

ShapeSeqs == UNION {[1..k -> ShapeSet] : k \in 1..MaxParams}

\* The non-shared names of param_fqns, in order
RECURSIVE NonShared(_, _)
NonShared(fqns, shared) ==
    IF fqns = <<>> THEN <<>>
    ELSE (IF Head(fqns) \in shared THEN <<>> ELSE <<Head(fqns)>>)
         \o NonShared(Tail(fqns), shared)

\* The checkpoint a sharded save of the logical tensors o left on rank r
Checkpoint(o, k, r, w, pfx) ==
    [key \in {pfx \o Fqn(i) : i \in 1..k} |->
        LET i == CHOOSE j \in 1..k : pfx \o Fqn(j) = key
        IN  ChunkTensor(o[i].data, o[i].size, r, w)]

\* The flat_param rank r holds for a module whose parameters have the
\* recorded shapes
RECURSIVE HeldFlat(_, _)
HeldFlat(recorded, i) ==
    IF i > Len(recorded) THEN <<>>
    ELSE [j \in 1..Numel(recorded[i]) |-> 500 + 16 * i + j]
         \o HeldFlat(recorded, i + 1)

HeldFlatParam(recorded, r, w) ==
    LET shard == GetShard(HeldFlat(recorded, 1), r, w)
    IN  [data |-> shard.tensor, numel |-> Len(shard.tensor),
         shard_numel_padded |-> shard.num_to_pad, shapes |-> recorded,
         unpadded_unsharded_numel |-> Len(HeldFlat(recorded, 1))]

IdleFsdp ==
    [full_param_ctx |-> "None", training_state |-> "IDLE", warnings |-> {},
     buffer_dtype |-> [own |-> "orig", nested |-> "orig"], phases |-> <<>>,
     enters |-> 0, exits |-> 0,
     at_call |-> [calls |-> 0, exits |-> 0, open |-> FALSE]]

NoIncoming == [source |-> "none", value |-> <<>>]

DefaultModule ==
    [has_params |-> TRUE, uses_sharded_strategy |-> TRUE,
     use_orig_params |-> FALSE, state_dict_type |-> "none",
     rank0_only |-> FALSE, buffer_names |-> {},
     ignored_param_names |-> {}, is_root |-> FALSE,
     mixed_precision_buffers |-> FALSE]

InitSharded ==
    \E w \in 1..MaxWorld, k \in 1..MaxParams :
    \E shapes \in [1..k -> ShapeSet], alias \in [1..k -> 0..k],
       recorded \in ShapeSeqs :
        \* alias[i] = 0: w_i is a parameter of its own; alias[i] = j: w_i is
        \* a shared alias of the earlier parameter w_j
        /\ \A i \in 1..k : alias[i] # 0 =>
              /\ alias[i] < i
              /\ alias[alias[i]] = 0
              /\ shapes[i] = shapes[alias[i]]
        /\ world_size = w
        /\ prefix = <<"m">>
        /\ module = [DefaultModule EXCEPT
                        !.state_dict_type = "SHARDED_STATE_DICT"]
        /\ param_fqns = [i \in 1..k |-> Fqn(i)]
        /\ shared_fqns = {Fqn(i) : i \in {j \in 1..k : alias[j] # 0}}
        /\ orig = [i \in 1..k |->
                     LET src == IF alias[i] = 0 THEN i ELSE alias[i]
                     IN  Tensor(shapes[i], OrigData(src, shapes[i]))]
        /\ flat_param = [r \in 0..(w - 1) |-> HeldFlatParam(recorded, r, w)]
        /\ pc = [r \in 0..(w - 1) |-> "sharded_pre_load"]
        /\ state_dict = [r \in 0..(w - 1) |->
                           Checkpoint(orig, k, r, w, prefix)]
        /\ loaded_shapes = [r \in 0..(w - 1) |-> <<>>]
        /\ nonsharded_tensors = [r \in 0..(w - 1) |-> <<>>]
        /\ error = [r \in 0..(w - 1) |-> "none"]
        /\ issued = [r \in 0..(w - 1) |-> <<>>]
        /\ fsdp = [r \in 0..(w - 1) |-> IdleFsdp]
        /\ incoming = [r \in 0..(w - 1) |-> NoIncoming]

\* One rank of a world of w ranks whose flat parameter has n elements; the
\* state_dict is what nn.Module.state_dict() collected for the instance.
InitLocal ==
    \E w \in 1..MaxLocalWorld, n \in 0..MaxNumel :
    \E rank \in 0..(w - 1) :
        /\ world_size = w
        /\ prefix = <<"m">>
        /\ module = [DefaultModule EXCEPT
                        !.state_dict_type = "LOCAL_STATE_DICT"]
        /\ param_fqns = <<Fqn(1)>>
        /\ shared_fqns = {}
        /\ orig = <<>>
        /\ flat_param = [r \in 0..(w - 1) |->
                           HeldFlatParam(<< <<n, 1>> >>, r, w)]
        /\ pc = [r \in {rank} |-> "local_state_dict"]
        /\ state_dict = [r \in {rank} |->
                           [key \in {prefix \o FSDP_PREFIX \o FLAT_PARAM} |->
                              Tensor(<<flat_param[r].numel, 1>>,
                                     flat_param[r].data)]]
        /\ loaded_shapes = [r \in {rank} |-> <<>>]
        /\ nonsharded_tensors = [r \in {rank} |-> <<>>]
        /\ error = [r \in {rank} |-> "none"]
        /\ issued = [r \in {rank} |-> <<>>]
        /\ fsdp = [r \in {rank} |-> IdleFsdp]
        /\ incoming = [r \in {rank} |-> NoIncoming]

NextLocal ==
    \/ \E r \in Ranks : LocalPostStateDict(r)
    \/ \E r \in Ranks : ReceiveLocalCheckpoint(r)
    \/ \E r \in Ranks : LocalPreLoad(r)

SpecLocal == InitLocal /\ [][NextLocal]_vars

NextLocalShards ==
    \/ \E r \in Ranks : ReceiveShardsCheckpoint(r)
    \/ \E r \in Ranks : LocalPreLoad(r)

SpecLocalShards == InitLocal /\ [][NextLocalShards]_vars

\* One rank of a world of w ranks about to return the state_dict that
\* nn.Module.state_dict() collected inside summon_full_params. With
\* use_orig_params the original parameters are always registered and the
\* FlatParameter is not; without it the FlatParameter is registered, and the
\* original parameters are there only on a rank that holds the unsharded
\* parameters (lines 136-145). A non-persistent buffer has no entry.
\* _ignored_param_names holds names relative to the root module and clean_key
\* is relative to the instance, so the name of an owned parameter can be one
\* of them. A marked parameter is one a nested call has cloned already.
BufferName == <<"b1">>

ForeignKey == <<"other", "weight">>

ParamShape == <<2, 1>>

InitSave ==
    \E w \in 1..MaxWorld, k \in 0..MaxParams, use_orig, r0only \in BOOLEAN,
       type \in {"FULL_STATE_DICT", "SHARDED_STATE_DICT"},
       sharded_strategy, foreign \in BOOLEAN,
       buffer \in {"none", "persistent", "non_persistent"} :
    \E rank \in 0..(w - 1), marked \in SUBSET (1..k) :
    \E ignored \in SUBSET (1..k) :
        /\ type = "SHARDED_STATE_DICT" => ~r0only /\ marked = {}
        /\ type = "FULL_STATE_DICT" => sharded_strategy
        /\ marked \cap ignored = {}
        /\ world_size = w
        /\ prefix = <<"m">>
        /\ module = [has_params |-> k > 0,
                     uses_sharded_strategy |-> sharded_strategy,
                     use_orig_params |-> use_orig,
                     state_dict_type |-> type,
                     rank0_only |-> r0only,
                     buffer_names |-> IF buffer = "none" THEN {}
                                      ELSE {BufferName},
                     ignored_param_names |-> {Fqn(i) : i \in ignored},
                     is_root |-> FALSE, mixed_precision_buffers |-> FALSE]
        /\ param_fqns = [i \in 1..k |-> Fqn(i)]
        /\ shared_fqns = {}
        /\ orig = [i \in 1..k |->
                     [Tensor(ParamShape, OrigData(i, ParamShape)) EXCEPT
                        !.cloned = i \in marked,
                        !.storage = IF i \in marked THEN "fresh"
                                    ELSE "scope"]]
        /\ flat_param = [r \in 0..(w - 1) |->
                           HeldFlatParam([i \in 1..k |-> ParamShape], r, w)]
        /\ pc = [r \in {rank} |-> "state_dict"]
        /\ state_dict = [r \in {rank} |->
              LET unsharded == ~(type = "FULL_STATE_DICT" /\ r0only /\ r # 0)
                  params == IF use_orig \/ unsharded THEN 1..k ELSE {}
                  keys == {prefix \o FSDP_PREFIX \o Fqn(i) : i \in params}
                          \cup (IF k > 0 /\ ~use_orig
                                THEN {prefix \o FSDP_PREFIX \o FLAT_PARAM}
                                ELSE {})
                          \cup (IF buffer = "persistent"
                                THEN {prefix \o FSDP_PREFIX \o BufferName}
                                ELSE {})
                          \cup (IF foreign THEN {ForeignKey} ELSE {})
              IN  [key \in keys |->
                     IF key = ForeignKey THEN Tensor(<<1, 1>>, <<9>>)
                     ELSE IF key = prefix \o FSDP_PREFIX \o BufferName
                     THEN Buffer(BufferName)
                     ELSE IF key = prefix \o FSDP_PREFIX \o FLAT_PARAM
                     THEN Tensor(<<flat_param[r].numel, 1>>,
                                 flat_param[r].data)
                     ELSE orig[CHOOSE i \in 1..k :
                                 key = prefix \o FSDP_PREFIX \o Fqn(i)]]]
        /\ loaded_shapes = [r \in {rank} |-> <<>>]
        /\ nonsharded_tensors = [r \in {rank} |-> <<>>]
        /\ error = [r \in {rank} |-> "none"]
        /\ issued = [r \in {rank} |-> <<>>]
        /\ fsdp = [r \in {rank} |-> IdleFsdp]
        /\ incoming = [r \in {rank} |-> NoIncoming]

NextSave ==
    \/ \E r \in Ranks : SummonPreStateDict(r)
    \/ \E r \in Ranks : SummonPostStateDict(r)
    \/ \E r \in Ranks : SummonExitStateDict(r)

SpecSave == InitSave /\ [][NextSave]_vars

NextSharded ==
    \/ \E r \in Ranks : ShardedPreLoad(r)
    \/ \E r \in Ranks : AllGatherReturn(r)

\* A sharded load of a checkpoint one of whose entries may be off on one
\* rank: an entry with two local shards, a missing entry, or an entry whose
\* one shard holds the whole tensor (a checkpoint written by a single rank).
\* incoming keeps the state_dict each rank's hook was given.
FaultKinds == {"none", "two_shards", "no_entry", "whole_tensor"}

FaultShapes == {<<1, 1>>, <<3, 2>>}

Faulty(sd, kind, key, o) ==
    IF kind = "no_entry" THEN Pop(sd, key)
    ELSE IF kind = "two_shards"
    THEN Put(sd, key, ShardedTensor(o.size,
            LET shard == ChunkTensor(o.data, o.size, 0, world_size).shards[1]
            IN  <<shard, shard>>))
    ELSE IF kind = "whole_tensor"
    THEN Put(sd, key, ChunkTensor(o.data, o.size, 0, 1))
    ELSE sd

InitFaulty ==
    \E w \in 1..MaxWorld, k \in 1..MaxParams, kind \in FaultKinds :
    \E shapes \in [1..k -> FaultShapes], fr \in 0..(w - 1), fi \in 1..k :
        /\ kind = "none" => fr = 0 /\ fi = 1
        /\ world_size = w
        /\ prefix = <<"m">>
        /\ module = [DefaultModule EXCEPT
                        !.state_dict_type = "SHARDED_STATE_DICT"]
        /\ param_fqns = [i \in 1..k |-> Fqn(i)]
        /\ shared_fqns = {}
        /\ orig = [i \in 1..k |-> Tensor(shapes[i], OrigData(i, shapes[i]))]
        /\ flat_param = [r \in 0..(w - 1) |-> HeldFlatParam(shapes, r, w)]
        /\ pc = [r \in 0..(w - 1) |-> "sharded_pre_load"]
        /\ state_dict = [r \in 0..(w - 1) |->
                           IF r = fr
                           THEN Faulty(Checkpoint(orig, k, r, w, prefix),
                                       kind, prefix \o Fqn(fi), orig[fi])
                           ELSE Checkpoint(orig, k, r, w, prefix)]
        /\ incoming = [r \in 0..(w - 1) |->
                         [source |-> "checkpoint", value |-> state_dict[r]]]
        /\ loaded_shapes = [r \in 0..(w - 1) |-> <<>>]
        /\ nonsharded_tensors = [r \in 0..(w - 1) |-> <<>>]
        /\ error = [r \in 0..(w - 1) |-> "none"]
        /\ issued = [r \in 0..(w - 1) |-> <<>>]
        /\ fsdp = [r \in 0..(w - 1) |-> IdleFsdp]

SpecFaulty == InitFaulty /\ [][NextSharded]_vars

\* Every rank of a world of w ranks about to run one hook (a local save, a
\* sharded save or a sharded load) on an instance with parameters that are
\* or are not flattened and sharded; without sharding every rank holds the
\* whole flat parameter. incoming keeps the state_dict the hook was given
\* and names the hook.
Hooks == {"local_state_dict", "state_dict", "sharded_pre_load"}

InitLayout ==
    \E w \in 1..MaxWorld, k \in 1..MaxParams, hook \in Hooks,
       sharded_strategy \in BOOLEAN :
        /\ world_size = w
        /\ prefix = <<"m">>
        /\ module = [DefaultModule EXCEPT
                        !.uses_sharded_strategy = sharded_strategy,
                        !.state_dict_type =
                            IF hook = "local_state_dict"
                            THEN "LOCAL_STATE_DICT"
                            ELSE "SHARDED_STATE_DICT"]
        /\ param_fqns = [i \in 1..k |-> Fqn(i)]
        /\ shared_fqns = {}
        /\ orig = [i \in 1..k |->
                     [Tensor(ParamShape, OrigData(i, ParamShape)) EXCEPT
                        !.storage = "scope"]]
        /\ flat_param = [r \in 0..(w - 1) |->
                           IF sharded_strategy
                           THEN HeldFlatParam([i \in 1..k |-> ParamShape], r, w)
                           ELSE HeldFlatParam([i \in 1..k |-> ParamShape], 0, 1)]
        /\ pc = [r \in 0..(w - 1) |-> hook]
        /\ state_dict = [r \in 0..(w - 1) |->
              LET flat == [key \in {prefix \o FSDP_PREFIX \o FLAT_PARAM} |->
                             Tensor(<<flat_param[r].numel, 1>>,
                                    flat_param[r].data)]
              IN  IF hook = "local_state_dict" THEN flat
                  ELSE IF hook = "sharded_pre_load"
                  THEN Checkpoint(orig, k, r, w, prefix)
                  ELSE [key \in DOMAIN flat
                            \cup {prefix \o FSDP_PREFIX \o Fqn(i) : i \in 1..k}
                        |-> IF key \in DOMAIN flat THEN flat[key]
                            ELSE orig[CHOOSE i \in 1..k :
                                   key = prefix \o FSDP_PREFIX \o Fqn(i)]]]
        /\ incoming = [r \in 0..(w - 1) |->
                         [source |-> hook, value |-> state_dict[r]]]
        /\ loaded_shapes = [r \in 0..(w - 1) |-> <<>>]
        /\ nonsharded_tensors = [r \in 0..(w - 1) |-> <<>>]
        /\ error = [r \in 0..(w - 1) |-> "none"]
        /\ issued = [r \in 0..(w - 1) |-> <<>>]
        /\ fsdp = [r \in 0..(w - 1) |-> IdleFsdp]

NextLayout ==
    \/ \E r \in Ranks : LocalPostStateDict(r)
    \/ \E r \in Ranks : SummonPreStateDict(r)
    \/ \E r \in Ranks : SummonPostStateDict(r)
    \/ \E r \in Ranks : SummonExitStateDict(r)
    \/ \E r \in Ranks : ShardedPreLoad(r)
    \/ \E r \in Ranks : AllGatherReturn(r)

SpecLayout == InitLayout /\ [][NextLayout]_vars

\* The key transform of a load hook followed by the key transform of a save
\* hook, on a state_dict with any of a few keys, under the prefix (one of
\* them under the wrapper's prefix already) and outside it, with values
\* that tell the keys apart.
LoadKeyTransform(r) ==
    /\ pc[r] = "load_keys"
    /\ state_dict' = [state_dict EXCEPT ![r] = RestoreKeys(@, prefix)]
    /\ pc' = [pc EXCEPT ![r] = "save_keys"]
    /\ UNCHANGED <<scenario, sharded_locals, error, fsdp, incoming>>

SaveKeyTransform(r) ==
    /\ pc[r] = "save_keys"
    /\ state_dict' = [state_dict EXCEPT ![r] = SaveKeys(@, prefix)]
    /\ pc' = [pc EXCEPT ![r] = "done"]
    /\ UNCHANGED <<scenario, sharded_locals, error, fsdp, incoming>>

KeyNames(pfx) ==
    <<pfx \o <<"w1">>, pfx \o <<"sub", "w1">>, pfx \o FSDP_PREFIX \o <<"w1">>,
      <<"other", "w1">>, <<"m2", "w1">>, <<"other">> \o FSDP_PREFIX \o <<"w1">> >>

InitKeys ==
    \E pfx \in {<<>>, <<"m">>}, chosen \in SUBSET (1..Len(KeyNames(<<>>))),
       type \in {"FULL_STATE_DICT", "LOCAL_STATE_DICT", "SHARDED_STATE_DICT"} :
        /\ world_size = 1
        /\ prefix = pfx
        /\ module = [DefaultModule EXCEPT !.state_dict_type = type]
        /\ param_fqns = <<Fqn(1)>>
        /\ shared_fqns = {}
        /\ orig = <<>>
        /\ flat_param = [r \in {0} |-> HeldFlatParam(<<ParamShape>>, 0, 1)]
        /\ pc = [r \in {0} |-> "load_keys"]
        /\ state_dict = [r \in {0} |->
                           [key \in {KeyNames(pfx)[i] : i \in chosen} |->
                              Tensor(<<1, 1>>,
                                 <<CHOOSE i \in chosen : KeyNames(pfx)[i] = key>>)]]
        /\ incoming = [r \in {0} |->
                         [source |-> "given", value |-> state_dict[r]]]
        /\ loaded_shapes = [r \in {0} |-> <<>>]
        /\ nonsharded_tensors = [r \in {0} |-> <<>>]
        /\ error = [r \in {0} |-> "none"]
        /\ issued = [r \in {0} |-> <<>>]
        /\ fsdp = [r \in {0} |-> IdleFsdp]

NextKeys ==
    \/ \E r \in Ranks : LoadKeyTransform(r)
    \/ \E r \in Ranks : SaveKeyTransform(r)

SpecKeys == InitKeys /\ [][NextKeys]_vars

\* _post_state_dict_hook on every rank of a module in any of the three
\* modes, root or nested, with or without mixed precision of the buffers.
\* With mixed precision the instance's own buffers are in the mixed type
\* (they are cast during _lazy_init(), lines 563-566); the buffers of the
\* nested instances are in the mixed type, or in the original type when the
\* save of a nested instance has cast them (lines 113-114).
PostStateDictHook(r) ==
    /\ pc[r] = "post_state_dict_hook"
    /\ pc' = [pc EXCEPT ![r] = PostStateDictHookFn(module.state_dict_type)]
    /\ UNCHANGED <<scenario, sharded_locals, state_dict, error, fsdp,
                   incoming>>

InitDispatch ==
    \E w \in 1..2, type \in {"FULL_STATE_DICT", "LOCAL_STATE_DICT",
                             "SHARDED_STATE_DICT"},
       root, mixed, sharded_strategy, params, r0only, use_orig \in BOOLEAN,
       nested \in {"orig", "mixed"} :
        /\ ~mixed => nested = "orig"
        /\ type # "FULL_STATE_DICT" => ~r0only
        /\ world_size = w
        /\ prefix = <<"m">>
        /\ module = [DefaultModule EXCEPT
                        !.has_params = params,
                        !.uses_sharded_strategy = sharded_strategy,
                        !.use_orig_params = use_orig,
                        !.state_dict_type = type,
                        !.rank0_only = r0only,
                        !.buffer_names = {BufferName},
                        !.is_root = root,
                        !.mixed_precision_buffers = mixed]
        /\ param_fqns = IF params THEN <<Fqn(1)>> ELSE <<>>
        /\ shared_fqns = {}
        /\ orig = [i \in 1..Len(param_fqns) |->
                     [Tensor(ParamShape, OrigData(i, ParamShape)) EXCEPT
                        !.storage = "scope"]]
        /\ flat_param = [r \in 0..(w - 1) |->
                           HeldFlatParam([i \in 1..Len(param_fqns) |->
                                            ParamShape], r, w)]
        /\ pc = [r \in 0..(w - 1) |-> "post_state_dict_hook"]
        /\ state_dict = [r \in 0..(w - 1) |->
              LET unsharded == ~(r0only /\ r # 0)
                  keys == {prefix \o FSDP_PREFIX \o BufferName}
                          \cup (IF params /\ (use_orig \/ unsharded)
                                   /\ type # "LOCAL_STATE_DICT"
                                THEN {prefix \o FSDP_PREFIX \o Fqn(1)}
                                ELSE {})
                          \cup (IF params /\ ~use_orig
                                THEN {prefix \o FSDP_PREFIX \o FLAT_PARAM}
                                ELSE {})
              IN  [key \in keys |->
                     IF key = prefix \o FSDP_PREFIX \o BufferName
                     THEN Buffer(BufferName)
                     ELSE IF key = prefix \o FSDP_PREFIX \o FLAT_PARAM
                     THEN Tensor(<<flat_param[r].numel, 1>>,
                                 flat_param[r].data)
                     ELSE orig[1]]]
        /\ loaded_shapes = [r \in 0..(w - 1) |-> <<>>]
        /\ nonsharded_tensors = [r \in 0..(w - 1) |-> <<>>]
        /\ error = [r \in 0..(w - 1) |-> "none"]
        /\ issued = [r \in 0..(w - 1) |-> <<>>]
        /\ fsdp = [r \in 0..(w - 1) |->
                     [IdleFsdp EXCEPT
                        !.buffer_dtype =
                            [own |-> IF mixed THEN "mixed" ELSE "orig",
                             nested |-> nested]]]
        /\ incoming = [r \in 0..(w - 1) |-> NoIncoming]

NextDispatch ==
    \/ \E r \in Ranks : PostStateDictHook(r)
    \/ \E r \in Ranks : LocalPostStateDict(r)
    \/ \E r \in Ranks : SummonPreStateDict(r)
    \/ \E r \in Ranks : SummonPostStateDict(r)
    \/ \E r \in Ranks : SummonExitStateDict(r)

SpecDispatch == InitDispatch /\ [][NextDispatch]_vars

\* A sequence of full and sharded saves and of full loads on one instance,
\* each called after the one before has returned or raised. The state_dict
\* of a save is what nn.Module.state_dict() collected, which another hook of
\* the wrapped module may have left without the FlatParameter's entry; the
\* state_dict of a load is a full checkpoint. fsdp[r].at_call keeps the
\* number of calls made, and the exits counted and whether the context was
\* open when the running call was made.
Collected(type, r0only, r, stripped) ==
    LET unsharded == ~(type = "FULL_STATE_DICT" /\ r0only /\ r # 0)
        keys == {prefix \o FSDP_PREFIX \o BufferName}
                \cup (IF module.has_params
                         /\ (module.use_orig_params \/ unsharded)
                      THEN {prefix \o FSDP_PREFIX \o Fqn(1)} ELSE {})
                \cup (IF module.has_params /\ ~module.use_orig_params
                         /\ ~stripped
                      THEN {prefix \o FSDP_PREFIX \o FLAT_PARAM} ELSE {})
    IN  [key \in keys |->
           IF key = prefix \o FSDP_PREFIX \o BufferName THEN Buffer(BufferName)
           ELSE IF key = prefix \o FSDP_PREFIX \o FLAT_PARAM
           THEN Tensor(<<flat_param[r].numel, 1>>, flat_param[r].data)
           ELSE orig[1]]

Called(f) ==
    [f EXCEPT !.phases = <<>>,
              !.at_call = [calls |-> f.at_call.calls + 1, exits |-> f.exits,
                           open |-> f.full_param_ctx # "None"]]

CallStateDict(r) ==
    /\ pc[r] \in {"idle", "done", "failed"}
    /\ fsdp[r].at_call.calls < MaxCalls
    /\ \E type \in {"FULL_STATE_DICT", "SHARDED_STATE_DICT"},
          r0only, stripped \in BOOLEAN :
        /\ type = "SHARDED_STATE_DICT" => ~r0only
        /\ module' = [module EXCEPT !.state_dict_type = type,
                                    !.rank0_only = r0only]
        /\ state_dict' = [state_dict EXCEPT ![r] =
                            Collected(type, r0only, r, stripped)]
    /\ pc' = [pc EXCEPT ![r] = "state_dict"]
    /\ error' = [error EXCEPT ![r] = "none"]
    /\ fsdp' = [fsdp EXCEPT ![r] = Called(@)]
    /\ UNCHANGED <<world_size, prefix, param_fqns, shared_fqns, orig,
                   flat_param, sharded_locals, incoming>>

CallLoadStateDict(r) ==
    /\ pc[r] \in {"idle", "done", "failed"}
    /\ fsdp[r].at_call.calls < MaxCalls
    /\ module' = [module EXCEPT !.state_dict_type = "FULL_STATE_DICT"]
    /\ state_dict' = [state_dict EXCEPT ![r] =
                        [key \in {prefix \o param_fqns[i] :
                                     i \in 1..Len(param_fqns)}
                                 \cup {prefix \o BufferName} |->
                           IF key = prefix \o BufferName THEN Buffer(BufferName)
                           ELSE orig[1]]]
    /\ pc' = [pc EXCEPT ![r] = "full_pre_load"]
    /\ error' = [error EXCEPT ![r] = "none"]
    /\ fsdp' = [fsdp EXCEPT ![r] = Called(@)]
    /\ UNCHANGED <<world_size, prefix, param_fqns, shared_fqns, orig,
                   flat_param, sharded_locals, incoming>>

InitScope ==
    \E rank \in 0..1, params, use_orig, sharded_strategy \in BOOLEAN :
        /\ world_size = 2
        /\ prefix = <<"m">>
        /\ module = [DefaultModule EXCEPT
                        !.has_params = params,
                        !.uses_sharded_strategy = sharded_strategy,
                        !.use_orig_params = use_orig,
                        !.state_dict_type = "FULL_STATE_DICT",
                        !.buffer_names = {BufferName}]
        /\ param_fqns = IF params THEN <<Fqn(1)>> ELSE <<>>
        /\ shared_fqns = {}
        /\ orig = [i \in 1..Len(param_fqns) |->
                     [Tensor(ParamShape, OrigData(i, ParamShape)) EXCEPT
                        !.storage = "scope"]]
        /\ flat_param = [r \in 0..1 |->
                           HeldFlatParam([i \in 1..Len(param_fqns) |->
                                            ParamShape], r, 2)]
        /\ pc = [r \in {rank} |-> "idle"]
        /\ state_dict = [r \in {rank} |-> <<>>]
        /\ loaded_shapes = [r \in {rank} |-> <<>>]
        /\ nonsharded_tensors = [r \in {rank} |-> <<>>]
        /\ error = [r \in {rank} |-> "none"]
        /\ issued = [r \in {rank} |-> <<>>]
        /\ fsdp = [r \in {rank} |-> IdleFsdp]
        /\ incoming = [r \in {rank} |-> NoIncoming]

NextScope ==
    \/ \E r \in Ranks : CallStateDict(r)
    \/ \E r \in Ranks : CallLoadStateDict(r)
    \/ \E r \in Ranks : SummonPreStateDict(r)
    \/ \E r \in Ranks : SummonPostStateDict(r)
    \/ \E r \in Ranks : SummonExitStateDict(r)
    \/ \E r \in Ranks : FullPreLoad(r)
    \/ \E r \in Ranks : FullPostLoad(r)

SpecScope == InitScope /\ [][NextScope]_vars

\* A sharded load of a checkpoint that holds, besides the entries of the
\* instance's parameters (shared ones included), entries the instance does
\* not own: a buffer and a parameter of a nested module under the prefix,
\* and an entry of another module. The instance may have no parameters. The
\* held flat parameter has the loaded shapes or other ones. incoming keeps
\* the state_dict the hook was given.
NestedKey == <<"sub", "weight">>

InitFrame ==
    \E w \in 1..2, k \in 0..MaxParams,
       extras \in SUBSET {"buffer", "nested", "foreign"}, good \in BOOLEAN :
    \E shapes \in [1..k -> FaultShapes] : \E shared \in SUBSET (2..k) :
        /\ \A i \in shared : shapes[i] = shapes[1]
        /\ k = 0 => good
        /\ world_size = w
        /\ prefix = <<"m">>
        /\ module = [DefaultModule EXCEPT
                        !.has_params = k > 0,
                        !.state_dict_type = "SHARDED_STATE_DICT"]
        /\ param_fqns = [i \in 1..k |-> Fqn(i)]
        /\ shared_fqns = {Fqn(i) : i \in shared}
        /\ orig = [i \in 1..k |->
                     Tensor(shapes[i],
                            OrigData(IF i \in shared THEN 1 ELSE i, shapes[i]))]
        /\ flat_param = [r \in 0..(w - 1) |->
              HeldFlatParam(
                  IF good
                  THEN [j \in 1..Len(NonShared(param_fqns, shared_fqns)) |->
                          shapes[CHOOSE i \in 1..k :
                             Fqn(i) = NonShared(param_fqns, shared_fqns)[j]]]
                  ELSE << <<2, 2>> >>,
                  r, w)]
        /\ pc = [r \in 0..(w - 1) |-> "sharded_pre_load"]
        /\ state_dict = [r \in 0..(w - 1) |->
              LET owned == Checkpoint(orig, k, r, w, prefix)
                  other == (IF "buffer" \in extras
                            THEN {prefix \o BufferName} ELSE {})
                           \cup (IF "nested" \in extras
                                 THEN {prefix \o NestedKey} ELSE {})
                           \cup (IF "foreign" \in extras
                                 THEN {ForeignKey} ELSE {})
              IN  [key \in DOMAIN owned \cup other |->
                     IF key \in DOMAIN owned THEN owned[key]
                     ELSE IF key = prefix \o BufferName THEN Buffer(BufferName)
                     ELSE IF key = ForeignKey THEN Tensor(<<1, 1>>, <<9>>)
                     ELSE Tensor(<<1, 1>>, <<8>>)]]
        /\ incoming = [r \in 0..(w - 1) |->
                         [source |-> "checkpoint", value |-> state_dict[r]]]
        /\ loaded_shapes = [r \in 0..(w - 1) |-> <<>>]
        /\ nonsharded_tensors = [r \in 0..(w - 1) |-> <<>>]
        /\ error = [r \in 0..(w - 1) |-> "none"]
        /\ issued = [r \in 0..(w - 1) |-> <<>>]
        /\ fsdp = [r \in 0..(w - 1) |-> IdleFsdp]

SpecFrame == InitFrame /\ [][NextSharded]_vars

Spec == InitSharded /\ [][NextSharded]_vars


\* ------------------------------------------------- properties, local mode
LocalFlatKey == prefix \o FSDP_PREFIX \o FLAT_PARAM

LoadFinished(r) ==
    incoming[r].source # "none" /\ pc[r] \in {"done", "failed"}

\* the one local shard of the state_dict the load hook was given
IncomingTensor(r) == incoming[r].value[prefix \o FLAT_PARAM].shards[1].tensor

RECURSIVE SumValid(_)
SumValid(q) ==
    IF q < 0 THEN 0 ELSE ValidDataSize(flat_param[q]) + SumValid(q - 1)

C3_ChunkLayout ==
    LET n == flat_param[0].unpadded_unsharded_numel
        chunk_size == CeilDiv(n, world_size)
    IN  /\ chunk_size * world_size >= n
        /\ SumValid(world_size - 1) = n
        /\ n >= 1 => ChunkSize(<<n, 1>>, world_size) = chunk_size
        /\ \A q \in 0..(world_size - 1) :
             LET offset == ShardOffset(flat_param[q], q)
                 valid_size == Max(0, Min(chunk_size, n - offset))
             IN  /\ flat_param[q].numel = chunk_size
                 /\ offset = chunk_size * q
                 /\ ValidDataSize(flat_param[q]) = valid_size
                 /\ flat_param[q].shard_numel_padded = chunk_size - valid_size

\* full_numel = 10 on 3 ranks: the last rank saved 2 elements at offset 8
C3_Witness ==
    /\ world_size = 3
    /\ flat_param[0].unpadded_unsharded_numel = 10
    /\ \E r \in Ranks :
         /\ r = 2
         /\ incoming[r].source = "saved"
         /\ flat_param[r].numel = 4 /\ flat_param[r].shard_numel_padded = 2
         /\ incoming[r].value[prefix \o FLAT_PARAM].shards[1].offset = 8
         /\ Len(IncomingTensor(r)) = 2

\* C5 (as claimed): a buffer of m = c - k <= c elements is restored as the
\* buffer followed by exactly k zeros, and a buffer of m > c elements fails
\* with no buffer installed, whatever the held padding count.
C5_PadToChunkOrReject ==
    \A r \in Ranks :
        LoadFinished(r) =>
            LET c == flat_param[r].numel
                m == Len(IncomingTensor(r))
            IN  IF m <= c
                THEN /\ pc[r] = "done"
                     /\ state_dict[r][LocalFlatKey].data =
                            Pad(IncomingTensor(r), c - m)
                ELSE /\ pc[r] = "failed"
                     /\ state_dict[r][LocalFlatKey].kind # "Tensor"

\* C5 (amended): with a held padding count p other than 0 and c, a buffer of
\* m < c elements is restored as the buffer followed by exactly p zeros and
\* a buffer of m >= c elements fails with no buffer installed; with p = 0 or
\* p = c the buffer is installed unchanged, whatever its length.
C5_PadByHeldPadding ==
    \A r \in Ranks :
        LoadFinished(r) =>
            LET c == flat_param[r].numel
                p == flat_param[r].shard_numel_padded
                m == Len(IncomingTensor(r))
            IN  IF p \in {0, c}
                THEN /\ pc[r] = "done"
                     /\ state_dict[r][LocalFlatKey].data = IncomingTensor(r)
                ELSE IF m < c
                THEN /\ pc[r] = "done"
                     /\ state_dict[r][LocalFlatKey].data =
                            Pad(IncomingTensor(r), p)
                ELSE /\ pc[r] = "failed"
                     /\ error[r] = "ShapeMismatch"
                     /\ state_dict[r][LocalFlatKey].kind = "ShardedTensor"

\* a received buffer 3 short of a chunk of 4 with 2 held padding elements:
\* restored with 2 zeros appended, 3 elements long
C5_Witness ==
    \E r \in Ranks :
        /\ incoming[r].source = "received" /\ pc[r] = "done"
        /\ flat_param[r].numel = 4 /\ flat_param[r].shard_numel_padded = 2
        /\ Len(IncomingTensor(r)) = 1
        /\ state_dict[r][LocalFlatKey].data = <<901, 0, 0>>

\* --------------------------------------------- properties, sharded load
NonSharedFqns == NonShared(param_fqns, shared_fqns)

IndexOf(fqn) == CHOOSE i \in 1..Len(param_fqns) : param_fqns[i] = fqn

FlatKey == prefix \o FSDP_PREFIX \o FLAT_PARAM

Installed(r) == FlatKey \in DOMAIN state_dict[r]

\* C1: every tensor a rank has reconstructed (its chunk and its peers',
\* zero padded to chunk_size, gathered in rank order and trimmed to the
\* parameter's element count) is the original logical tensor, element for
\* element and in order.
C1_GatherTrimReconstructs ==
    \A r \in Ranks : \A k \in 1..Len(nonsharded_tensors[r]) :
        nonsharded_tensors[r][k] = orig[IndexOf(NonSharedFqns[k])]

\* a reconstruction whose last rank contributed a partly padded chunk
C1_Witness ==
    /\ world_size = 2
    /\ \E r \in Ranks :
          /\ Len(nonsharded_tensors[r]) >= 1
          /\ nonsharded_tensors[r][1].size = <<3, 2>>
          /\ issued[1][1].buf = <<16 + 5, 16 + 6, 0, 0>>

\* C4: every rank issues its all-gathers for the non-shared names in
\* declaration order, one each, so the k-th all-gather of every rank is for
\* the same parameter; a rank that is done has issued one per non-shared
\* name; and as long as no rank has failed, some rank can take a step until
\* all are done (no deadlock).
C4_SameOrderNoDeadlock ==
    /\ \A r \in Ranks :
          /\ Len(issued[r]) <= Len(NonSharedFqns)
          /\ \A k \in 1..Len(issued[r]) : issued[r][k].fqn = NonSharedFqns[k]
          /\ pc[r] = "done" => Len(issued[r]) = Len(NonSharedFqns)
    /\ (\A r \in Ranks : error[r] = "none") =>
          \/ \A r \in Ranks : pc[r] = "done"
          \/ ENABLED NextSharded

\* three ranks done after two all-gathers, the last rank with no shard of
\* the first parameter
C4_Witness ==
    /\ world_size = 3
    /\ \A r \in Ranks : pc[r] = "done" /\ Len(issued[r]) = 2
    /\ issued[2][1].buf = <<0>>

C7_InstallOnlyOnEqualSizeAndPadding ==
    \A r \in Ranks :
        LET shard == GetShard(FlattenParams(nonsharded_tensors[r]), r,
                              world_size)
        IN  /\ Installed(r) =>
                /\ pc[r] = "done"
                /\ state_dict[r][FlatKey].data = shard.tensor
                /\ Len(shard.tensor) = flat_param[r].numel
                /\ shard.num_to_pad = flat_param[r].shard_numel_padded
            /\ error[r] \in {"SizeMismatch", "PaddingMismatch"} =>
                ~Installed(r)

\* a rank that installed a padded chunk while another rank was refused for
\* its padding amount
C7_Witness ==
    \E r, q \in Ranks :
        /\ Installed(r)
        /\ flat_param[r].shard_numel_padded > 0
        /\ error[q] = "PaddingMismatch"

\* C9: no all-gather is ever issued for a shared alias and no tensor is
\* reconstructed for one: the names gathered are distinct non-shared names,
\* and a rank that is done has reconstructed exactly one tensor per
\* non-shared name.
C9_SharedAliasesSkipped ==
    \A r \in Ranks :
        /\ \A k \in 1..Len(issued[r]) : issued[r][k].fqn \notin shared_fqns
        /\ \A j, k \in 1..Len(issued[r]) :
              issued[r][j].fqn = issued[r][k].fqn => j = k
        /\ Len(loaded_shapes[r]) <= Len(NonSharedFqns)
        /\ pc[r] = "done" =>
              /\ Len(nonsharded_tensors[r]) = Len(param_fqns)
                                                - Cardinality(shared_fqns)
              /\ Len(loaded_shapes[r]) = Len(nonsharded_tensors[r])

\* a rank done with a shared alias among its names
C9_Witness ==
    \E r \in Ranks :
        /\ pc[r] = "done"
        /\ shared_fqns # {}
        /\ Len(issued[r]) = 1

\* ------------------------------------------------- properties, save hooks
OwnedParamKeys == {prefix \o param_fqns[i] : i \in 1..Len(param_fqns)}

OwnedBufferKeys == {prefix \o b : b \in module.buffer_names}

Rank0Only == module.state_dict_type = "FULL_STATE_DICT" /\ module.rank0_only

\* C8: after a rank0_only full save, the output of a rank other than 0 has no
\* entry for a parameter name or a buffer name owned by the instance, with
\* and without use_orig_params, and the output of rank 0 has every owned
\* parameter name.
C8_Rank0OnlyOutput ==
    \A r \in Ranks :
        (pc[r] = "done" /\ Rank0Only) =>
            IF r # 0
            THEN DOMAIN state_dict[r]
                    \cap (OwnedParamKeys \cup OwnedBufferKeys) = {}
            ELSE OwnedParamKeys \subseteq DOMAIN state_dict[r]

AtScopeExit(r) ==
    pc[r] = "summon_exit" /\ module.state_dict_type = "FULL_STATE_DICT"

\* C10 as stated: when the summon_full_params scope is exited in a full save,
\* every entry of an owned parameter is a clone marked as cloned and not a
\* reference to the storage of the scope, and a value that was marked
\* already is the same value still.
C10_EveryEntryIsAClone ==
    \A r \in Ranks :
        AtScopeExit(r) =>
            \A i \in 1..Len(param_fqns) :
                LET fqn == prefix \o param_fqns[i]
                IN  fqn \in DOMAIN state_dict[r] =>
                        /\ state_dict[r][fqn].cloned
                        /\ state_dict[r][fqn].storage # "scope"
                        /\ orig[i].cloned => state_dict[r][fqn] = orig[i]

\* C10 amended: when the summon_full_params scope is exited in a full save,
\* the entry of an owned parameter is a marked clone with the parameter's
\* data unless the parameter's name is ignored or its clone raised (a
\* warning names it), in which case the entry is the uncloned reference to
\* the storage of the scope; a value that was marked already is the same
\* value still.
C10_CloneUnlessIgnoredOrFailed ==
    \A r \in Ranks :
        AtScopeExit(r) =>
            \A i \in 1..Len(param_fqns) :
                LET fqn == prefix \o param_fqns[i]
                IN  fqn \in DOMAIN state_dict[r] =>
                        IF \/ orig[i].cloned
                           \/ param_fqns[i] \in module.ignored_param_names
                           \/ fqn \in fsdp[r].warnings
                        THEN state_dict[r][fqn] = orig[i]
                        ELSE state_dict[r][fqn] =
                                [orig[i] EXCEPT !.cloned = TRUE,
                                                !.storage = "clone"]

\* A full save at scope exit with one entry cloned by this call and another
\* left alone because it was marked already.
C10_Witness ==
    \E r \in Ranks :
        /\ AtScopeExit(r)
        /\ \E i, j \in 1..Len(param_fqns) :
            /\ prefix \o param_fqns[i] \in DOMAIN state_dict[r]
            /\ state_dict[r][prefix \o param_fqns[i]].storage = "clone"
            /\ ~orig[i].cloned
            /\ orig[j].cloned
            /\ state_dict[r][prefix \o param_fqns[j]] = orig[j]

\* C11: when the clone of a parameter raises in a full save, a warning names
\* it, its entry stays the unmarked reference it was, every other parameter
\* is still processed (cloned unless ignored or marked), and the save goes on
\* without an error: the scope is exited, the buffers are set and the hook
\* returns.
C11_CloneFailureNonFatal ==
    \A r \in Ranks :
        (module.state_dict_type = "FULL_STATE_DICT"
         /\ fsdp[r].warnings # {}) =>
            /\ error[r] = "none"
            /\ pc[r] \in {"summon_exit", "done"}
            /\ fsdp[r].warnings \subseteq OwnedParamKeys
            /\ \A i \in 1..Len(param_fqns) :
                 LET fqn == prefix \o param_fqns[i]
                 IN  /\ fqn \in DOMAIN state_dict[r]
                     /\ IF fqn \in fsdp[r].warnings
                        THEN /\ state_dict[r][fqn] = orig[i]
                             /\ ~state_dict[r][fqn].cloned
                        ELSE \/ state_dict[r][fqn] = Clone(orig[i])
                             \/ /\ state_dict[r][fqn] = orig[i]
                                /\ \/ orig[i].cloned
                                   \/ param_fqns[i]
                                        \in module.ignored_param_names
            /\ pc[r] = "done" =>
                 /\ fsdp[r].full_param_ctx = "None"
                 /\ fsdp[r].training_state = "IDLE"
                 /\ \A key \in OwnedBufferKeys \cap DOMAIN state_dict[r] :
                      state_dict[r][key] = Buffer(BufferName)

\* a full save that returned after the clone of w1 raised: w1 is the
\* reference, w2 a clone, the buffer is there
C11_Witness ==
    \E r \in Ranks :
        /\ pc[r] = "done" /\ module.state_dict_type = "FULL_STATE_DICT"
        /\ fsdp[r].warnings = {prefix \o Fqn(1)}
        /\ Len(param_fqns) = 2
        /\ state_dict[r][prefix \o Fqn(1)].storage = "scope"
        /\ state_dict[r][prefix \o Fqn(2)].storage = "clone"
        /\ prefix \o BufferName \in DOMAIN state_dict[r]

\* --------------------------------- properties, sharded load of a bad entry
\* the entry of the i-th parameter in the state_dict rank r was given
GivenEntry(r, i) == incoming[r].value[prefix \o param_fqns[i]]

IsGiven(r, i) == prefix \o param_fqns[i] \in DOMAIN incoming[r].value

\* the parameter rank r's loop is at or stopped at: the one after its last
\* all-gather
NextIndex(r) == Len(issued[r]) + 1

\* C12: a rank never issues the all-gather of a parameter whose entry has
\* two or more local shards: it fails at that parameter, with every
\* all-gather before it issued and none after; a rank whose entries all
\* have no or one shard never fails the shard count.
C12_AtMostOneShard ==
    \A r \in Ranks :
        /\ \A k \in 1..Len(issued[r]) :
              /\ IsGiven(r, issued[r][k].i)
              /\ Len(GivenEntry(r, issued[r][k].i).shards) <= 1
        /\ error[r] = "MultiShard" =>
              /\ pc[r] = "failed"
              /\ NextIndex(r) <= Len(param_fqns)
              /\ IsGiven(r, NextIndex(r))
              /\ Len(GivenEntry(r, NextIndex(r)).shards) >= 2
        /\ (pc[r] # "sharded_pre_load"
            /\ \A i \in 1..Len(param_fqns) :
                  IsGiven(r, i) /\ Len(GivenEntry(r, i).shards) <= 1) =>
              error[r] # "MultiShard"

\* rank 1 failed at its second parameter, given with two shards, after the
\* all-gather of the first; rank 2 has no shard of the first and went on
C12_Witness ==
    /\ world_size = 3 /\ Len(param_fqns) = 2
    /\ error[1] = "MultiShard" /\ Len(issued[1]) = 1
    /\ Len(GivenEntry(1, 2).shards) = 2
    /\ Len(GivenEntry(2, 1).shards) = 0 /\ Len(issued[2]) = 2

\* ------------------------------ properties, local load of several shards
GivenShards(r) == incoming[r].value[prefix \o FLAT_PARAM].shards

\* C13: a local load given a ShardedTensor with no local shard or with more
\* than one fails and installs no tensor; it never goes on with the first
\* shard alone.
C13_ExactlyOneShard ==
    \A r \in Ranks :
        (LoadFinished(r) /\ Len(GivenShards(r)) # 1) =>
            /\ pc[r] = "failed"
            /\ error[r] \in {"NoShard", "MultiShard"}
            /\ state_dict[r][LocalFlatKey].kind = "ShardedTensor"

\* --------------------------------------- properties, unsharded parameters
Unsharded == module.has_params /\ ~module.uses_sharded_strategy

HookRan(r) == pc[r] \notin Hooks

\* C14 as stated: on an instance whose parameters are not sharded the local
\* save, the sharded save and the sharded load fail with the scope not
\* entered, no all-gather issued and the state_dict as it was given.
C14_RejectedUntouched ==
    \A r \in Ranks :
        (Unsharded /\ HookRan(r)) =>
            /\ pc[r] = "failed" /\ error[r] = "RuntimeError"
            /\ fsdp[r] = IdleFsdp
            /\ issued[r] = <<>>
            /\ state_dict[r] = incoming[r].value

\* C14 amended: the three hooks fail with the scope not entered and no
\* all-gather issued; the two saves leave the state_dict as it was given,
\* the load has by then rewritten the keys under the prefix with the
\* wrapper's prefix, values unchanged.
C14_RejectedBeforeScopeAndGather ==
    \A r \in Ranks :
        (Unsharded /\ HookRan(r)) =>
            /\ pc[r] = "failed" /\ error[r] = "RuntimeError"
            /\ fsdp[r] = IdleFsdp
            /\ issued[r] = <<>>
            /\ state_dict[r] =
                 IF incoming[r].source = "sharded_pre_load"
                 THEN [key \in {prefix \o FSDP_PREFIX \o param_fqns[i] :
                                  i \in 1..Len(param_fqns)} |->
                         incoming[r].value[prefix \o
                            SubSeq(key, Len(prefix) + 2, Len(key))]]
                 ELSE incoming[r].value

\* a refused sharded save of two parameters on the last of three ranks
C14_Witness ==
    \E r \in Ranks :
        /\ r = 2 /\ Unsharded /\ incoming[r].source = "state_dict"
        /\ pc[r] = "failed" /\ error[r] = "RuntimeError"
        /\ Len(param_fqns) = 2
        /\ prefix \o FSDP_PREFIX \o Fqn(2) \in DOMAIN state_dict[r]

\* ----------------------------------------- properties, the key transforms
\* C15: the load-side transform puts the wrapper's prefix right after the
\* caller's prefix in every key under that prefix and leaves every other key
\* alone, values kept; the save-side transform applied to the result gives
\* back the state_dict as it was, same keys and same values.
C15_KeyPrefixRoundTrip ==
    \A r \in Ranks :
        LET given == incoming[r].value
        IN  /\ pc[r] = "save_keys" =>
                /\ Cardinality(DOMAIN state_dict[r])
                     = Cardinality(DOMAIN given)
                /\ \A key \in DOMAIN given :
                     LET new == IF StartsWith(key, prefix)
                                THEN prefix \o FSDP_PREFIX
                                     \o SubSeq(key, Len(prefix) + 1, Len(key))
                                ELSE key
                     IN  /\ new \in DOMAIN state_dict[r]
                         /\ state_dict[r][new] = given[key]
            /\ pc[r] = "done" => state_dict[r] = given

\* a round trip of a state_dict with a key under the prefix, a key that had
\* the wrapper's prefix already and a key outside the prefix
C15_Witness ==
    \E r \in Ranks :
        /\ pc[r] = "done" /\ prefix = <<"m">>
        /\ {<<"m", "w1">>, <<"m">> \o FSDP_PREFIX \o <<"w1">>, <<"m2", "w1">>}
              \subseteq DOMAIN state_dict[r]
        /\ state_dict[r] = incoming[r].value

\* --------------------------------------------- properties, the dispatcher
Saved(r) == pc[r] \in {"done", "local_load_state_dict"}

Mixed == module.mixed_precision_buffers

\* the steps of a save that returned, as the configuration has them
ExpectedPhases ==
    <<"common_pre">>
    \o (IF module.state_dict_type = "LOCAL_STATE_DICT" THEN <<>>
        ELSE <<"enter_full_param_ctx">>
             \o (IF Mixed THEN <<"cast_buffers_orig">> ELSE <<>>))
    \o <<PostHookName(module.state_dict_type)>>
    \o (IF module.is_root /\ Mixed THEN <<"cast_buffers_mixed">> ELSE <<>>)

\* C16: a save that returns has run the common pre-hook, then (full and
\* sharded mode) the entry of the full-parameter context and the cast of the
\* buffers to their original type, then the post hook of the configured mode
\* and of no other, then the cast of the buffers back to the mixed type;
\* inside the context the instance's buffers are in their original type, and
\* after the save of a root instance with mixed precision of the buffers
\* every buffer is in the mixed type.
C16_PhaseOrder ==
    \A r \in Ranks :
        /\ Saved(r) =>
            /\ fsdp[r].phases = ExpectedPhases
            /\ module.is_root /\ Mixed =>
                  \A b \in DOMAIN fsdp[r].buffer_dtype :
                      fsdp[r].buffer_dtype[b] = "mixed"
        /\ pc[r] \in {"summon_post", "summon_exit"} /\ Mixed =>
              fsdp[r].buffer_dtype.own = "orig"

\* a full save of a root instance has returned, the buffers of a nested
\* instance having been in their original type before it
C16_Witness ==
    \E r \in Ranks :
        /\ pc[r] = "done" /\ module.is_root /\ Mixed
        /\ module.state_dict_type = "FULL_STATE_DICT" /\ module.has_params
        /\ Len(fsdp[r].phases) = 5
        /\ fsdp[r].buffer_dtype.nested = "mixed"
        /\ \E q \in Ranks : pc[q] = "post_state_dict_hook"
                            /\ fsdp[q].buffer_dtype.nested = "orig"

\* ------------------------------- properties, the chunk size of the load
\* C17: for a parameter of n elements the chunk size of the sharded load is
\* ceil(n / world_size), and the computation never fails: no load stops with
\* a division by zero, and the k-th all-gather a rank has issued carries
\* ceil(n / world_size) elements, n the number of elements of the k-th
\* loaded shape.
C17_ChunkSizeIsCeilOfNumel ==
    \A r \in Ranks :
        /\ error[r] # "ZeroDivisionError"
        /\ \A k \in 1..Len(issued[r]) :
              /\ ChunkSize(loaded_shapes[r][k], world_size)
                   = CeilDiv(Numel(loaded_shapes[r][k]), world_size)
              /\ Len(issued[r][k].buf)
                   = CeilDiv(Numel(loaded_shapes[r][k]), world_size)

\* ------------------------- properties, the contribution to the all-gather
GivenShardsOf(r, i) == PreLoadTransform(GivenEntry(r, i))[2]

GivenChunkSize(r, i) == ChunkSize(GivenEntry(r, i).size, world_size)

\* rank r's loop has come to the all-gather of parameter i
CameToGather(r, i) ==
    /\ pc[r] # "sharded_pre_load"
    /\ i <= Min(NextIndex(r), Len(param_fqns))
    /\ i = NextIndex(r) =>
          /\ error[r] \notin {"KeyError", "MultiShard", "ZeroDivisionError"}
          /\ pc[r] = "failed"

\* C18 as stated: whatever the length of the local shard, the tensor passed
\* to the all-gather has chunk_size elements.
C18_UniformContribution ==
    \A r \in Ranks : \A i \in 1..Len(param_fqns) :
        CameToGather(r, i) =>
            Len(LocalTensor(GivenShardsOf(r, i), GivenChunkSize(r, i)))
               = GivenChunkSize(r, i)

\* C18, amended: every all-gather a rank has issued carries chunk_size
\* elements, the local shard followed by zeros when there is a shard (of at
\* most chunk_size elements) and zeros only when there is none, and the
\* gathered tensor has chunk_size * world_size elements; a shard of more
\* than chunk_size elements is passed as it is, and the all-gather refuses
\* it.
C18_PaddedUpToChunkSize ==
    \A r \in Ranks :
        /\ \A k \in 1..Len(issued[r]) :
              LET i == issued[r][k].i
                  shards == GivenShardsOf(r, i)
                  chunk_size == GivenChunkSize(r, i)
                  buf == issued[r][k].buf
              IN  /\ Len(buf) = chunk_size
                  /\ Len(shards) = 0 => buf = Zeros(chunk_size)
                  /\ Len(shards) = 1 =>
                        /\ Len(shards[1].tensor) <= chunk_size
                        /\ buf = shards[1].tensor
                                 \o Zeros(chunk_size - Len(shards[1].tensor))
                  /\ (\A q \in Ranks : Len(issued[q]) >= k) =>
                        Len(AllGather(0, k)) = chunk_size * world_size
        /\ \A i \in 1..Len(param_fqns) :
              (CameToGather(r, i) /\ i = NextIndex(r)) =>
                  /\ error[r] = "AllGatherSizeError"
                  /\ Len(GivenShardsOf(r, i)) = 1
                  /\ Len(GivenShardsOf(r, i)[1].tensor) > GivenChunkSize(r, i)
                  /\ LocalTensor(GivenShardsOf(r, i), GivenChunkSize(r, i))
                       = GivenShardsOf(r, i)[1].tensor

\* one rank was given the whole tensor as its shard and its all-gather was
\* refused; another rank has passed its shorter shard, padded, and a rank
\* without a shard has passed zeros
C18_Witness ==
    \E r, q \in Ranks :
        /\ error[r] = "AllGatherSizeError"
        /\ \E k \in 1..Len(issued[q]) :
              LET shards == GivenShardsOf(q, issued[q][k].i)
              IN  /\ Len(shards) = 1
                  /\ 0 < Len(shards[1].tensor)
                  /\ Len(shards[1].tensor) < Len(issued[q][k].buf)
        /\ \E p \in Ranks : \E k \in 1..Len(issued[p]) :
              /\ Len(GivenShardsOf(p, issued[p][k].i)) = 0
              /\ Len(issued[p][k].buf) > 0

\* ------------------------------------ properties, a missing participant
\* rank q stops before the all-gather of parameter i: one of its entries up
\* to i is missing or has two or more shards
AbortsBefore(q, i) ==
    \E j \in 1..i : ~IsGiven(q, j) \/ Len(GivenShardsOf(q, j)) >= 2

\* rank r is in an all-gather that rank q has not issued and will not issue
WaitsFor(r, q) ==
    /\ pc[r] = "all_gather"
    /\ \/ pc[q] = "failed" /\ Len(issued[q]) < Len(issued[r])
       \/ AbortsBefore(q, issued[r][Len(issued[r])].i)

\* C19: a rank in the all-gather of a parameter that another rank stops
\* short of (an entry missing, a shard count refused, any failure before the
\* call) stays in that all-gather in every step: nothing returns the call,
\* raises an error on the waiting rank or changes what it has issued.
C19_BlockedForever ==
    [][\A r \in Ranks :
          (\E q \in Ranks : WaitsFor(r, q)) =>
              /\ pc'[r] = "all_gather"
              /\ error'[r] = "none"
              /\ issued'[r] = issued[r]
              /\ (\E q \in Ranks : WaitsFor(r, q))']_vars

\* of three ranks one has failed the shard count of its first parameter and
\* the two others are in the all-gather of that parameter
C19_Witness ==
    /\ world_size = 3
    /\ \E q \in Ranks :
          /\ pc[q] = "failed" /\ error[q] = "MultiShard"
          /\ issued[q] = <<>>
          /\ \A r \in Ranks \ {q} :
                pc[r] = "all_gather" /\ Len(issued[r]) = 1 /\ WaitsFor(r, q)

\* ------------------------------ properties, the descriptors of a local save
LocalSaved(r) ==
    /\ pc[r] = "local_load_state_dict"
    /\ incoming[r].source = "saved"
    /\ prefix \o FLAT_PARAM \in DOMAIN state_dict[r]

\* the positions of the logical buffer the descriptor rank r saved stands for
Covered(r) ==
    LET shard == state_dict[r][prefix \o FLAT_PARAM].shards[1]
    IN  {shard.offset + j : j \in 1..Len(shard.tensor)}

\* C20: the descriptors the ranks of a local save produce do not overlap,
\* lie inside the logical buffer of full_numel elements, and, when every
\* rank has saved, cover it exactly; a rank whose chunk is all padding is
\* no exception.
C20_DescriptorsTile ==
    LET saved == {r \in Ranks : LocalSaved(r)}
        full == 1..flat_param[0].unpadded_unsharded_numel
    IN  /\ \A r \in saved : Covered(r) \subseteq full
        /\ \A r, q \in saved : r # q => Covered(r) \cap Covered(q) = {}
        /\ saved = 0..(world_size - 1) =>
              UNION {Covered(r) : r \in saved} = full

\* ---------------------------------- properties, the full-parameter context
ScopeOpen(r) == fsdp[r].full_param_ctx # "None"

\* C21: the context is entered only when none is open, so it is open
\* exactly when one more entry than exits has been made, and the instance is
\* in SUMMON_FULL_PARAMS exactly then; a call made while a context is open
\* is refused without a further entry; a save or a full load that has
\* returned has made exactly one exit since it was called and leaves no
\* context and the instance out of SUMMON_FULL_PARAMS; between the two
\* phases of a full load the context of its first phase is open.
C21_ScopeBalance ==
    \A r \in Ranks :
        /\ fsdp[r].enters - fsdp[r].exits \in {0, 1}
        /\ ScopeOpen(r) <=> fsdp[r].enters = fsdp[r].exits + 1
        /\ ScopeOpen(r) <=> fsdp[r].training_state = "SUMMON_FULL_PARAMS"
        /\ (fsdp[r].at_call.open /\ pc[r] \notin {"state_dict", "full_pre_load"})
              => /\ pc[r] = "failed"
                 /\ error[r] \in {"AssertionError", "RuntimeError"}
                 /\ fsdp[r].exits = fsdp[r].at_call.exits
                 /\ ScopeOpen(r)
        /\ pc[r] = "done" =>
              /\ ~ScopeOpen(r)
              /\ fsdp[r].exits = fsdp[r].at_call.exits + 1
        /\ pc[r] \in {"summon_post", "summon_exit", "full_post_load"} =>
              /\ ScopeOpen(r)
              /\ fsdp[r].exits = fsdp[r].at_call.exits

\* a save has returned, a second save has failed inside the context, and a
\* third call, made with the context open, has been refused
C21_Witness ==
    \E r \in Ranks :
        /\ fsdp[r].at_call.calls = 3 /\ fsdp[r].at_call.open
        /\ pc[r] = "failed" /\ error[r] = "AssertionError"
        /\ fsdp[r].enters = 2 /\ fsdp[r].exits = 1

\* --------------------------------- properties, the frame of a sharded load
OwnedKeys == {prefix \o param_fqns[i] : i \in 1..Len(param_fqns)}

\* the key of an entry after line 465
WithWrapperPrefix(key) ==
    IF StartsWith(key, prefix)
    THEN prefix \o FSDP_PREFIX \o SubSeq(key, Len(prefix) + 1, Len(key))
    ELSE key

\* the entries the instance does not own are there under their rewritten
\* keys, with the values they were given with, and no entry of an owned
\* parameter is left
OthersKept(r) ==
    LET given == incoming[r].value
    IN  /\ \A key \in DOMAIN given \ OwnedKeys :
              /\ WithWrapperPrefix(key) \in DOMAIN state_dict[r]
              /\ state_dict[r][WithWrapperPrefix(key)] = given[key]
        /\ \A key \in OwnedKeys :
              /\ key \notin DOMAIN state_dict[r]
              /\ WithWrapperPrefix(key) \notin DOMAIN state_dict[r]

\* the chunk of rank r of the flattened loaded tensors
DerivedChunk(r) ==
    LET shard == GetShard(FlattenParams(nonsharded_tensors[r]), r, world_size)
    IN  Tensor(<<Len(shard.tensor), 1>>, shard.tensor)

\* C22 as stated: after a sharded load that succeeded the owned entries are
\* gone, one entry, the flat parameter's with the derived chunk, has been
\* added, and the other entries are as given under their rewritten keys.
C22_OneEntryAdded ==
    \A r \in Ranks :
        (pc[r] = "done" /\ incoming[r].source = "checkpoint") =>
            /\ OthersKept(r)
            /\ FlatKey \in DOMAIN state_dict[r]
            /\ Cardinality(DOMAIN state_dict[r])
                 = Cardinality(DOMAIN incoming[r].value \ OwnedKeys) + 1

\* C22, amended: that holds of an instance that has parameters; the load of
\* an instance without parameters returns after the rewrite of the keys and
\* adds no entry.
C22_FrameOfShardedLoad ==
    \A r \in Ranks :
        (pc[r] = "done" /\ incoming[r].source = "checkpoint") =>
            /\ OthersKept(r)
            /\ module.has_params =>
                  /\ FlatKey \in DOMAIN state_dict[r]
                  /\ state_dict[r][FlatKey] = DerivedChunk(r)
                  /\ Cardinality(DOMAIN state_dict[r])
                       = Cardinality(DOMAIN incoming[r].value \ OwnedKeys) + 1
            /\ ~module.has_params =>
                  DOMAIN state_dict[r]
                     = {WithWrapperPrefix(key) : key \in DOMAIN incoming[r].value}

\* a load of two parameters, the second a shared alias of the first, with a
\* buffer, a nested entry and an entry of another module has succeeded on
\* rank 1 of 2
C22_Witness ==
    /\ world_size = 2 /\ Len(param_fqns) = 2 /\ shared_fqns = {Fqn(2)}
    /\ pc[1] = "done" /\ incoming[1].source = "checkpoint"
    /\ Cardinality(DOMAIN incoming[1].value) = 5
    /\ Cardinality(DOMAIN state_dict[1]) = 4
    /\ FlatKey \in DOMAIN state_dict[1]
    /\ state_dict[1][ForeignKey] = incoming[1].value[ForeignKey]

====
